---- MODULE Spec2Model ----
(***************************************************************************)
(* Model of make_image_grid.py: main() as a linear pipeline whose steps    *)
(* are its interactions with the file system and the image library, and    *)
(* load_and_fit() as a pure computation on the source size and cell size.  *)
(*                                                                         *)
(* Floating point: scale = min(cell_w / im.width, cell_h / im.height) and  *)
(* int(im.width * scale) are modelled with exact rationals.  For all       *)
(* sizes up to 12 the double-precision results of the source expressions   *)
(* equal the exact ones (the first deviation is 49 * (2 / 49) < 2).        *)
(*                                                                         *)
(* Not modelled: the parsing of args.bg, the pixel contents of the images, *)
(* and a failure of grid.save itself.                                      *)
(*                                                                         *)
(* Operators introduced as "variant:" are deliberately faulty versions of  *)
(* the operator that follows them; the properties below are expected to    *)
(* fail when the variant is put in its place.                              *)
(***************************************************************************)
EXTENDS Integers, Sequences, FiniteSets

VARIABLES
    pc,        \* position of main()
    folder,    \* the directory named by args.folder, as the file system has it
    args,      \* argparse namespace: cols, cell_width, cell_height, padding
    images,    \* list(iter_images(folder)): entry names in sorted order
    sizes,     \* im.size of every probed image, in order
    opened,    \* number of Image.open calls made so far
    cell_w, cell_h, cols, rows, pad, grid_w, grid_h,   \* locals of main()
    grid,      \* the canvas: [created, w, h]
    idx,       \* loop index of the compose loop
    cell,      \* result of the last load_and_fit call
    pasted,    \* grid.paste calls made so far, in order
    written,   \* grid.save has written the output file
    status     \* "running", "ok" (exit 0) or the kind of failure

vars == <<pc, folder, args, images, sizes, opened, cell_w, cell_h, cols, rows,
          pad, grid_w, grid_h, grid, idx, cell, pasted, written, status>>

\* ---------------------------------------------------------------- bounds
MaxEntries == 3     \* directory entries
MaxDim == 2         \* natural width / height of an image, explicit cell size
MaxCols == 2        \* largest --cols
MaxPad == 1         \* largest --padding
MaxFit == 6         \* sizes tried on load_and_fit alone

\* Directory listings: only the order of the names matters to sorted(), so the
\* names of a folder with k entries are taken to be 1..k.
EntryKinds == {"image_file", "other_file", "image_dir"}
Folders ==
    {[is_dir |-> FALSE, entries |-> <<>>]}
        \cup {[is_dir |-> TRUE, entries |-> e] :
                 e \in UNION {[1..k -> EntryKinds] : k \in 0..MaxEntries}}
Dims == {1, MaxDim}                    \* natural sizes: smallest and largest
ColsArgs == {-1} \cup (0..MaxCols)     \* --cols: negative, auto, explicit
CellArgs == {-1, 0, 1, MaxDim}         \* --cell-width, --cell-height
PadArgs == {-1} \cup (0..MaxPad)       \* --padding

\* ------------------------------------------------------- Python arithmetic
Max(a, b) == IF a >= b THEN a ELSE b

\* a // b (floor division), b # 0
FloorDiv(a, b) == IF b > 0 THEN a \div b ELSE (-a) \div (-b)

\* a % b (sign of the divisor), b # 0
PyMod(a, b) == a - b * FloorDiv(a, b)

\* math.ceil(a / b), b # 0
CeilDiv(a, b) == -FloorDiv(-a, b)

\* variant: int(math.sqrt(n)) + 1
SqrtPlusOne(n) == (CHOOSE k \in 0..n : k * k <= n /\ (k + 1) * (k + 1) > n) + 1

\* math.ceil(math.sqrt(n)), n >= 0
CeilSqrt(n) == CHOOSE k \in 0..n : k * k >= n /\ (k = 0 \/ (k - 1) * (k - 1) < n)

\* variant of int(): round(num / den), to nearest, ties to even, den > 0
PyRound(num, den) ==
    LET q == num \div den
        r == num - q * den
    IN IF 2 * r < den THEN q
       ELSE IF 2 * r > den THEN q + 1
       ELSE IF q % 2 = 0 THEN q ELSE q + 1

\* int(num / den): truncation toward zero, den > 0
IntTrunc(num, den) == IF num >= 0 THEN num \div den ELSE -((-num) \div den)

\* x or y on integers
PyOr(x, y) == IF x # 0 THEN x ELSE y

RECURSIVE SeqMax(_)
SeqMax(s) == IF Len(s) = 1 THEN s[1] ELSE Max(s[1], SeqMax(Tail(s)))

\* ------------------------------------------------------------ iter_images
\* entry.is_file()
is_file(kind) == kind \in {"image_file", "other_file"}

\* entry.suffix.lower() in IMAGE_EXTS
ext_ok(kind) == kind \in {"image_file", "image_dir"}

\* variant: the is_file() test is dropped
ExtOnly(kind) == ext_ok(kind)

IsImage(kind) == is_file(kind) /\ ext_ok(kind)

RECURSIVE SortedNames(_)
SortedNames(S) ==
    IF S = {} THEN <<>>
    ELSE LET m == CHOOSE x \in S : \A y \in S : x <= y
         IN <<m>> \o SortedNames(S \ {m})

iter_images(f) ==
    SelectSeq(SortedNames(DOMAIN f.entries), LAMBDA e : IsImage(f.entries[e]))

\* ----------------------------------------------------------- load_and_fit
\* variant: scale-to-fill, max instead of min
ScaleFill(w, h, cw, ch) == IF cw * h >= ch * w THEN <<cw, w>> ELSE <<ch, h>>

\* scale as a fraction <<num, den>>: min(cell_w / w, cell_h / h), w, h > 0
Scale(w, h, cw, ch) == IF cw * h <= ch * w THEN <<cw, w>> ELSE <<ch, h>>

NewW(w, h, cw, ch) ==
    LET s == Scale(w, h, cw, ch) IN Max(1, IntTrunc(w * s[1], s[2]))

NewH(w, h, cw, ch) ==
    LET s == Scale(w, h, cw, ch) IN Max(1, IntTrunc(h * s[1], s[2]))

\* variant: the odd pixel goes to the left
OffXCeil(cw, new_w) == CeilDiv(cw - new_w, 2)

OffX(cw, new_w) == FloorDiv(cw - new_w, 2)

OffY(ch, new_h) == FloorDiv(ch - new_h, 2)

load_and_fit(w, h, cw, ch) ==
    LET nw == NewW(w, h, cw, ch)
        nh == NewH(w, h, cw, ch)
    IN [src_w |-> w, src_h |-> h, w |-> cw, h |-> ch,
        new_w |-> nw, new_h |-> nh,
        off_x |-> OffX(cw, nw), off_y |-> OffY(ch, nh)]

NoCell == [src_w |-> 0, src_h |-> 0, w |-> 0, h |-> 0,
           new_w |-> 0, new_h |-> 0, off_x |-> 0, off_y |-> 0]

\* Image.new raises ValueError on a negative width or height
SizeOk(w, h) == w >= 0 /\ h >= 0

\* ---------------------------------------------------------- main: layout
\* cols = args.cols or math.ceil(math.sqrt(len(images)))
Cols(a, n) == PyOr(a.cols, CeilSqrt(n))

\* rows = math.ceil(len(images) / cols)
Rows(n, c) == CeilDiv(n, c)

\* variant: padding around the outer border as well
GridWOuterPad(c, cw, p) == c * cw + (c + 1) * p

\* grid_w = cols * cell_w + (cols - 1) * pad
GridW(c, cw, p) == c * cw + (c - 1) * p

\* grid_h = rows * cell_h + (rows - 1) * pad
GridH(r, ch, p) == r * ch + (r - 1) * p

\* c = idx % cols; x = c * (cell_w + pad)
PasteX(i, c, cw, p) == PyMod(i, c) * (cw + p)

\* variant: rows placed without the padding
PasteYNoPad(i, c, ch, p) == FloorDiv(i, c) * ch

\* r = idx // cols; y = r * (cell_h + pad)
PasteY(i, c, ch, p) == FloorDiv(i, c) * (ch + p)

\* ------------------------------------------------------------------ main
Init ==
    /\ pc = "parse"
    /\ folder \in Folders
    /\ args = [cols |-> 0, cell_width |-> 0, cell_height |-> 0, padding |-> 0]
    /\ images = <<>>
    /\ sizes = <<>>
    /\ opened = 0
    /\ cell_w = 0 /\ cell_h = 0 /\ cols = 0 /\ rows = 0 /\ pad = 0
    /\ grid_w = 0 /\ grid_h = 0
    /\ grid = [created |-> FALSE, w |-> 0, h |-> 0]
    /\ idx = 0
    /\ cell = NoCell
    /\ pasted = <<>>
    /\ written = FALSE
    /\ status = "running"

Fail(kind) == pc' = "failed" /\ status' = kind

\* args = parser.parse_args()
ParseArgs ==
    /\ pc = "parse"
    /\ \E c \in ColsArgs, cw \in CellArgs, ch \in CellArgs, p \in PadArgs :
          args' = [cols |-> c, cell_width |-> cw, cell_height |-> ch, padding |-> p]
    /\ pc' = "folder"
    /\ UNCHANGED <<folder, images, sizes, opened, cell_w, cell_h, cols, rows, pad,
                   grid_w, grid_h, grid, idx, cell, pasted, written, status>>

\* if not folder.is_dir(): raise SystemExit
CheckFolder ==
    /\ pc = "folder"
    /\ IF folder.is_dir
         THEN pc' = "enumerate" /\ UNCHANGED status
         ELSE Fail("folder_not_found")
    /\ UNCHANGED <<folder, args, images, sizes, opened, cell_w, cell_h, cols, rows,
                   pad, grid_w, grid_h, grid, idx, cell, pasted, written>>

\* images = list(iter_images(folder)); if not images: raise SystemExit
Enumerate ==
    /\ pc = "enumerate"
    /\ images' = iter_images(folder)
    /\ IF images' = <<>>
         THEN Fail("no_images")
         ELSE pc' = "probe" /\ UNCHANGED status
    /\ UNCHANGED <<folder, args, sizes, opened, cell_w, cell_h, cols, rows, pad,
                   grid_w, grid_h, grid, idx, cell, pasted, written>>

\* one iteration of the probing loop: Image.open(p) succeeds, im.size is read
ProbeSize ==
    /\ pc = "probe"
    /\ Len(sizes) < Len(images)
    /\ \E w \in Dims, h \in Dims : sizes' = Append(sizes, <<w, h>>)
    /\ opened' = opened + 1
    /\ UNCHANGED <<pc, folder, args, images, cell_w, cell_h, cols, rows, pad,
                   grid_w, grid_h, grid, idx, cell, pasted, written, status>>

\* one iteration of the probing loop: Image.open(p) raises
ProbeFail ==
    /\ pc = "probe"
    /\ Len(sizes) < Len(images)
    /\ opened' = opened + 1
    /\ Fail("decode_error")
    /\ UNCHANGED <<folder, args, images, sizes, cell_w, cell_h, cols, rows, pad,
                   grid_w, grid_h, grid, idx, cell, pasted, written>>

\* max_w .. grid_h: the layout
Layout ==
    /\ pc = "probe"
    /\ Len(sizes) = Len(images)
    /\ LET max_w == SeqMax([i \in 1..Len(sizes) |-> sizes[i][1]])
           max_h == SeqMax([i \in 1..Len(sizes) |-> sizes[i][2]])
           c == Cols(args, Len(images))
           r == Rows(Len(images), c)
           cw == PyOr(args.cell_width, max_w)
           ch == PyOr(args.cell_height, max_h)
       IN /\ cell_w' = cw
          /\ cell_h' = ch
          /\ cols' = c
          /\ rows' = r
          /\ pad' = args.padding
          /\ grid_w' = GridW(c, cw, args.padding)
          /\ grid_h' = GridH(r, ch, args.padding)
    /\ pc' = "canvas"
    /\ UNCHANGED <<folder, args, images, sizes, opened, grid, idx, cell, pasted,
                   written, status>>

\* grid = Image.new("RGB", (grid_w, grid_h), args.bg)
NewGrid ==
    /\ pc = "canvas"
    /\ IF SizeOk(grid_w, grid_h)
         THEN /\ grid' = [created |-> TRUE, w |-> grid_w, h |-> grid_h]
              /\ pc' = "compose"
              /\ UNCHANGED status
         ELSE /\ Fail("value_error")
              /\ UNCHANGED grid
    /\ UNCHANGED <<folder, args, images, sizes, opened, cell_w, cell_h, cols, rows,
                   pad, grid_w, grid_h, idx, cell, pasted, written>>

\* one iteration of the compose loop, load_and_fit returns and the cell is pasted
RenderPaste ==
    /\ pc = "compose"
    /\ idx < Len(images)
    /\ SizeOk(cell_w, cell_h)
    /\ LET x == PasteX(idx, cols, cell_w, pad)
           y == PasteY(idx, cols, cell_h, pad)
           fit == load_and_fit(sizes[idx + 1][1], sizes[idx + 1][2], cell_w, cell_h)
       IN /\ cell' = fit
          /\ pasted' = Append(pasted, [idx |-> idx, x |-> x, y |-> y, fit |-> fit])
    /\ opened' = opened + 1
    /\ idx' = idx + 1
    /\ UNCHANGED <<pc, folder, args, images, sizes, cell_w, cell_h, cols, rows, pad,
                   grid_w, grid_h, grid, written, status>>

\* variant: an image that fails in load_and_fit is skipped
RenderSkip ==
    /\ pc = "compose"
    /\ idx < Len(images)
    /\ opened' = opened + 1
    /\ idx' = idx + 1
    /\ UNCHANGED <<pc, folder, args, images, sizes, cell_w, cell_h, cols, rows, pad,
                   grid_w, grid_h, grid, cell, pasted, written, status>>

\* one iteration of the compose loop, load_and_fit raises: the file does not
\* decode (im.convert), or the cell canvas has a negative size (Image.new)
RenderFail ==
    /\ pc = "compose"
    /\ idx < Len(images)
    /\ opened' = opened + 1
    /\ \/ Fail("decode_error")
       \/ ~SizeOk(cell_w, cell_h) /\ Fail("value_error")
    /\ UNCHANGED <<folder, args, images, sizes, cell_w, cell_h, cols, rows, pad,
                   grid_w, grid_h, grid, idx, cell, pasted, written>>

\* grid.save(out_path); print(...)
Save ==
    /\ pc = "compose"
    /\ idx = Len(images)
    /\ written' = TRUE
    /\ pc' = "done"
    /\ status' = "ok"
    /\ UNCHANGED <<folder, args, images, sizes, opened, cell_w, cell_h, cols, rows,
                   pad, grid_w, grid_h, grid, idx, cell, pasted>>

Next ==
    \/ ParseArgs
    \/ CheckFolder
    \/ Enumerate
    \/ ProbeSize
    \/ ProbeFail
    \/ Layout
    \/ NewGrid
    \/ RenderPaste
    \/ RenderFail
    \/ Save

Spec == Init /\ [][Next]_vars

\* -------------------------------------------- load_and_fit on its own inputs
FitDims == 1..MaxFit

InitFit ==
    /\ pc = "fit"
    /\ folder = [is_dir |-> TRUE, entries |-> [n \in {1} |-> "image_file"]]
    /\ args = [cols |-> 0, cell_width |-> 0, cell_height |-> 0, padding |-> 0]
    /\ images = <<1>>
    /\ \E w \in FitDims, h \in FitDims : sizes = << <<w, h>> >>
    /\ opened = 0
    /\ cell_w \in FitDims /\ cell_h \in FitDims
    /\ cols = 1 /\ rows = 1 /\ pad = 0
    /\ grid_w = 0 /\ grid_h = 0
    /\ grid = [created |-> FALSE, w |-> 0, h |-> 0]
    /\ idx = 0
    /\ cell = NoCell
    /\ pasted = <<>>
    /\ written = FALSE
    /\ status = "running"

\* cell = load_and_fit(path, cell_w, cell_h, bg)
FitCall ==
    /\ pc = "fit"
    /\ cell' = load_and_fit(sizes[1][1], sizes[1][2], cell_w, cell_h)
    /\ opened' = opened + 1
    /\ pc' = "fitted"
    /\ UNCHANGED <<folder, args, images, sizes, cell_w, cell_h, cols, rows, pad,
                   grid_w, grid_h, grid, idx, pasted, written, status>>

NextFit == FitCall

SpecFit == InitFit /\ [][NextFit]_vars

\* ================================================================ claims
n == Len(images)

\* main() has passed the layout computation (line 98)
LayoutDone == pc \in {"canvas", "compose", "done"} \/ (pc = "failed" /\ Len(sizes) = n /\ n > 0)

Abs(a) == IF a >= 0 THEN a ELSE -a

\* C1: whenever the canvas has been created, its width is
\* columns*cellWidth + (columns-1)*padding and its height is
\* rows*cellHeight + (rows-1)*padding, for the values used in placement.
C1_CanvasSize ==
    grid.created =>
        /\ grid.w = cols * cell_w + (cols - 1) * pad
        /\ grid.h = rows * cell_h + (rows - 1) * pad
        /\ pad = args.padding

C1_Witness ==
    /\ grid.created /\ pc = "done"
    /\ cols = 2 /\ rows = 2 /\ pad > 0 /\ cell_w # cell_h

\* C2 (as claimed): for every image count and every requested column count the
\* layout has columns*rows >= n and columns*(rows-1) < n, and an auto column
\* count is ceil(sqrt(n)).
C2_MinimalRows ==
    LayoutDone =>
        /\ cols * rows >= n
        /\ cols * (rows - 1) < n
        /\ (args.cols = 0 => cols * cols >= n /\ (cols - 1) * (cols - 1) < n)

\* C3 (as claimed): a requested column count <= 0 is treated as auto, and the
\* column count used for layout and placement is >= 1 in every run.
C3_NonPositiveColsAuto ==
    LayoutDone =>
        /\ cols >= 1
        /\ (args.cols <= 0 => cols * cols >= n /\ (cols - 1) * (cols - 1) < n)

\* C4 (as claimed): load_and_fit resizes to max(1, round(srcWidth*scale)) by
\* max(1, round(srcHeight*scale)), rounding to nearest.
C4_Rounded ==
    pc = "fitted" =>
        LET s == Scale(cell.src_w, cell.src_h, cell.w, cell.h)
        IN /\ cell.new_w = Max(1, PyRound(cell.src_w * s[1], s[2]))
           /\ cell.new_h = Max(1, PyRound(cell.src_h * s[1], s[2]))

\* v = max(1, floor(num/den)), stated by inequalities
IsFloorAtLeastOne(v, num, den) ==
    /\ v >= 1
    /\ (v + 1) * den > num
    /\ (v * den <= num \/ v = 1)

\* C4 (amended): load_and_fit resizes to max(1, floor(srcWidth*scale)) by
\* max(1, floor(srcHeight*scale)) with scale = min(w/srcWidth, h/srcHeight):
\* the scaled dimensions are truncated, not rounded to nearest.
C4_Truncated ==
    pc = "fitted" =>
        \E s \in {<<cell.w, cell.src_w>>, <<cell.h, cell.src_h>>} :
            /\ s[1] * cell.src_w <= cell.w * s[2]
            /\ s[1] * cell.src_h <= cell.h * s[2]
            /\ IsFloorAtLeastOne(cell.new_w, cell.src_w * s[1], s[2])
            /\ IsFloorAtLeastOne(cell.new_h, cell.src_h * s[1], s[2])

C4_Witness ==
    /\ pc = "fitted"
    /\ cell.src_w = 3 /\ cell.src_h = 5 /\ cell.w = 3 /\ cell.h = 3
    /\ cell.new_w = 1 /\ cell.new_h = 3

\* C5: the resized dimensions satisfy 1 <= newWidth <= w, 1 <= newHeight <= h
\* and each is within one pixel of the exact scaled value.
C5_FitsCell ==
    pc = "fitted" =>
        \E s \in {<<cell.w, cell.src_w>>, <<cell.h, cell.src_h>>} :
            /\ s[1] * cell.src_w <= cell.w * s[2]
            /\ s[1] * cell.src_h <= cell.h * s[2]
            /\ 1 <= cell.new_w /\ cell.new_w <= cell.w
            /\ 1 <= cell.new_h /\ cell.new_h <= cell.h
            /\ Abs(cell.new_w * s[2] - cell.src_w * s[1]) <= s[2]
            /\ Abs(cell.new_h * s[2] - cell.src_h * s[1]) <= s[2]

C5_Witness ==
    /\ pc = "fitted"
    /\ cell.src_w = 5 /\ cell.src_h = 1 /\ cell.w = 2 /\ cell.h = 4
    /\ cell.new_w = 2 /\ cell.new_h = 1

\* C6: the paste offset is floor((cell - resized)/2) on both axes, is >= 0,
\* offset + resized size <= cell size, and an odd remainder goes to the
\* bottom/right.
C6_Centered ==
    pc = "fitted" =>
        /\ 2 * cell.off_x <= cell.w - cell.new_w
        /\ cell.w - cell.new_w <= 2 * cell.off_x + 1
        /\ 2 * cell.off_y <= cell.h - cell.new_h
        /\ cell.h - cell.new_h <= 2 * cell.off_y + 1
        /\ cell.off_x >= 0 /\ cell.off_x + cell.new_w <= cell.w
        /\ cell.off_y >= 0 /\ cell.off_y + cell.new_h <= cell.h
        /\ (cell.w - cell.new_w - cell.off_x) - cell.off_x \in {0, 1}
        /\ (cell.h - cell.new_h - cell.off_y) - cell.off_y \in {0, 1}

C6_Witness ==
    /\ pc = "fitted"
    /\ cell.w - cell.new_w = 3 /\ cell.off_x = 1
    /\ cell.h = cell.new_h

\* the cell rectangles of two paste calls share no pixel
Disjoint(a, b) ==
    \/ a.x + cell_w <= b.x \/ b.x + cell_w <= a.x
    \/ a.y + cell_h <= b.y \/ b.y + cell_h <= a.y

\* C7: image i of the sorted enumeration is pasted at
\* x = (i mod columns)*(cellWidth+padding), y = (i div columns)*(cellHeight+padding);
\* for padding >= 0 the cell rectangles of distinct indices do not overlap and
\* lie within the canvas; each image is pasted exactly once, in order.
C7_Placement ==
    /\ \A k \in 1..Len(pasted) :
          LET q == pasted[k] IN
          /\ q.idx = k - 1
          /\ q.fit.src_w = sizes[k][1] /\ q.fit.src_h = sizes[k][2]
          /\ \E r \in -MaxEntries..MaxEntries, c \in -MaxEntries..MaxEntries :
                /\ q.idx = r * cols + c
                /\ IF cols > 0 THEN 0 <= c /\ c < cols ELSE cols < c /\ c <= 0
                /\ q.x = c * (cell_w + pad)
                /\ q.y = r * (cell_h + pad)
          /\ pad >= 0 =>
                /\ 0 <= q.x /\ q.x + cell_w <= grid.w
                /\ 0 <= q.y /\ q.y + cell_h <= grid.h
                /\ \A j \in 1..Len(pasted) : j # k => Disjoint(q, pasted[j])
    /\ Len(pasted) = idx
    /\ \A k \in 1..n : k < n => images[k] < images[k + 1]
    /\ pc = "done" => Len(pasted) = n

C7_Witness ==
    /\ pc = "done" /\ n = 3 /\ cols = 2 /\ pad = 1
    /\ pasted[3].x = 0 /\ pasted[3].y = cell_h + 1
    /\ pasted[2].x = cell_w + 1 /\ pasted[2].y = 0

\* C8: the output file is written only after every enumerated image has been
\* rendered and pasted; when an image fails to decode (probing or rendering)
\* the run ends in failure at that image: no later image is opened, the image
\* is not skipped, nothing more happens and no output file is written.
C8_NoPartialOutput ==
    /\ written =>
          /\ pc = "done" /\ status = "ok"
          /\ Len(pasted) = n /\ n >= 1
          /\ \A k \in 1..n : pasted[k].idx = k - 1
    /\ status = "decode_error" =>
          /\ pc = "failed" /\ ~written
          /\ ~ENABLED Next
          /\ Len(pasted) < n
          /\ \/ Len(sizes) < n /\ opened = Len(sizes) + 1 /\ pasted = <<>>
             \/ Len(sizes) = n /\ opened = n + Len(pasted) + 1

C8_Witness ==
    /\ status = "decode_error" /\ Len(sizes) = n /\ Len(pasted) = 1 /\ n = 3
    /\ grid.created /\ ~written

\* C9: when the folder path is not a directory the run ends in an error before
\* any image file is opened; when the folder holds no regular file with a
\* recognized extension the run ends in an error; in both cases no canvas is
\* created and no output file is written.
C9_EarlyErrors ==
    LET noImage == \A e \in DOMAIN folder.entries :
                      folder.entries[e] \in {"other_file", "image_dir"}
    IN /\ (~folder.is_dir /\ pc \notin {"parse", "folder"}) =>
             pc = "failed" /\ status = "folder_not_found"
       /\ (folder.is_dir /\ noImage /\ pc \notin {"parse", "folder", "enumerate"}) =>
             pc = "failed" /\ status = "no_images"
       /\ (~folder.is_dir \/ noImage) =>
             opened = 0 /\ ~grid.created /\ ~written /\ pasted = <<>>

C9_Witness ==
    /\ status = "no_images" /\ pc = "failed"
    /\ \E e \in DOMAIN folder.entries : folder.entries[e] = "image_dir"
    /\ \E e \in DOMAIN folder.entries : folder.entries[e] = "other_file"

\* C10: with exactly one image and cols, cell-width, cell-height all auto, for
\* any padding: columns = rows = 1, the cell size and the canvas size are the
\* image's natural size, and the image is rendered at scale 1 at offset (0,0).
C10_SingleImage ==
    (n = 1 /\ args.cols = 0 /\ args.cell_width = 0 /\ args.cell_height = 0) =>
        /\ LayoutDone =>
              /\ cols = 1 /\ rows = 1
              /\ cell_w = sizes[1][1] /\ cell_h = sizes[1][2]
              /\ grid_w = sizes[1][1] /\ grid_h = sizes[1][2]
        /\ pc \in {"compose", "done"} =>
              grid.created /\ grid.w = sizes[1][1] /\ grid.h = sizes[1][2]
        /\ pasted # <<>> =>
              /\ pasted[1].x = 0 /\ pasted[1].y = 0
              /\ pasted[1].fit.new_w = sizes[1][1] /\ pasted[1].fit.new_h = sizes[1][2]
              /\ pasted[1].fit.off_x = 0 /\ pasted[1].fit.off_y = 0

C10_Witness ==
    /\ pc = "done" /\ n = 1 /\ written
    /\ args = [cols |-> 0, cell_width |-> 0, cell_height |-> 0, padding |-> 1]
    /\ sizes[1] = <<2, 1>>

====
